---- MODULE Spec2Model ----
(***************************************************************************)
(* Model of the CSV row picker.  Two variants of the App component exist:  *)
(*   "grouped"  src/src/main.tsx       (CommentRow: id, group, text, order) *)
(*   "plain"    src/unnamed/part_000   (one sentence string per record)     *)
(* One of them is mounted (variable `variant`); its handlers are the        *)
(* actions.  A string is a sequence of one-character strings, a nullable    *)
(* value is None (<<>>) or Some(v) (<<v>>).  Indexes that the code keeps    *)
(* (order, selectedIndex, the idx inside an id) are 0-based as in the code. *)
(***************************************************************************)
EXTENDS Integers, Sequences, FiniteSets, TLC

VARIABLES
    variant,        \* which App is mounted: "grouped" or "plain"
    rows,           \* grouped: useState<CommentRow[]>
    sentences,      \* plain:   useState<string[]>
    filtered,       \* the visible subset (CommentRow[] or string[])
    filteredOrd,    \* ghost, plain: position in `sentences` of each visible row
    selectedId,     \* grouped: string | null
    selectedIndex,  \* plain:   number | null
    clickedOrd,     \* ghost, plain: position in `sentences` of the row last clicked
    editorValue,    \* the editor buffer
    copied,         \* the transient "copied" indicator
    error,          \* string | null
    fileName,       \* string | null
    query,          \* the filter text
    selectedGroup,  \* grouped: "ALL" or a group
    parsing,        \* Papa.parse calls in flight: the set of their files (indexes of Files)
    writing,        \* clipboard writes in flight: the text each one captured
    timers,         \* pending setTimeout(() => setCopied(false), 1200) callbacks
    copiedText,     \* ghost: the clipboard text the indicator acknowledges (None while it is off)
    probe           \* ghost: what an examination records beside the App's state
                    \* (a helper's arguments and result, the state at the start
                    \* of an import); None when nothing is recorded

vars == <<variant, rows, sentences, filtered, filteredOrd, selectedId,
          selectedIndex, clickedOrd, editorValue, copied, error, fileName,
          query, selectedGroup, parsing, writing, timers, copiedText, probe>>

(***************************************************************************)
(* Bounds of the model.                                                     *)
(***************************************************************************)
MaxParsing == 2      \* imports in flight at once
MaxEditorLen == 3    \* a row click is taken only while the buffer stays this short
MaxCopies == 1       \* copies under way at once (write in flight or revert timer pending)

(***************************************************************************)
(* Nullable values and JavaScript string primitives.                        *)
(***************************************************************************)
None == <<>>
Some(v) == <<v>>

Whitespace == {" ", "\n", "\t"}

RECURSIVE trimStart(_)
trimStart(s) ==
    IF s # <<>> /\ Head(s) \in Whitespace THEN trimStart(Tail(s)) ELSE s

RECURSIVE trimEnd(_)
trimEnd(s) ==
    IF s # <<>> /\ s[Len(s)] \in Whitespace
    THEN trimEnd(SubSeq(s, 1, Len(s) - 1))
    ELSE s

trim(s) == trimEnd(trimStart(s))

\* s.replace(/\s+/g, " "): every maximal whitespace run becomes one space
RECURSIVE collapseWhitespace(_)
collapseWhitespace(s) ==
    IF s = <<>> THEN <<>>
    ELSE IF Head(s) \in Whitespace
         THEN <<" ">> \o collapseWhitespace(trimStart(Tail(s)))
         ELSE <<Head(s)>> \o collapseWhitespace(Tail(s))

lowerChar(c) ==
    CASE c = "A" -> "a" [] c = "B" -> "b" [] c = "C" -> "c" [] c = "L" -> "l"
      [] c = "S" -> "s" [] c = "U" -> "u" [] c = "V" -> "v" [] c = "X" -> "x"
      [] c = "Y" -> "y" [] c = "Z" -> "z"
      [] OTHER -> c

toLowerCase(s) == [i \in 1..Len(s) |-> lowerChar(s[i])]

includes(hay, needle) ==
    \E i \in 0..(Len(hay) - Len(needle)) :
        SubSeq(hay, i + 1, i + Len(needle)) = needle

endsWith(s, suffix) ==
    /\ Len(suffix) <= Len(s)
    /\ SubSeq(s, Len(s) - Len(suffix) + 1, Len(s)) = suffix

\* s.slice(0, n)
slice0(s, n) == SubSeq(s, 1, IF n < Len(s) THEN n ELSE Len(s))

Digits == <<"0", "1", "2", "3", "4", "5", "6", "7", "8", "9">>

\* String(n) for a non-negative integer
RECURSIVE numToString(_)
numToString(n) ==
    IF n < 10 THEN <<Digits[n + 1]>>
    ELSE numToString(n \div 10) \o <<Digits[(n % 10) + 1]>>

\* arr[i] with a 0-based index; out of range gives undefined (None)
at(arr, i) == IF i < Len(arr) THEN arr[i + 1] ELSE None

(***************************************************************************)
(* Module-level helpers of src/src/main.tsx.                                *)
(***************************************************************************)
DEFAULT_GROUP == <<"U", "n", "g", "r", "o", "u", "p", "e", "d">>

ALL == <<"A", "L", "L">>

\* a cell is None (null / undefined) or Some(string)
safeStr(v) == IF v = None THEN <<>> ELSE v[1]

\* mutant of appendWithSmartSpace: a tab at the end does not count as a separator
appendWithSmartSpace_NoTab(prev, next) ==
    IF prev = <<>> THEN next
    ELSE LET needsSpace == ~(\/ endsWith(prev, <<" ">>)
                             \/ endsWith(prev, <<"\n">>))
         IN  prev \o (IF needsSpace THEN <<" ">> ELSE <<>>) \o next

\* mutant of appendWithSmartSpace: the space is put in front of the first text too
appendWithSmartSpace_AlwaysSpace(prev, next) ==
    LET needsSpace == ~(\/ endsWith(prev, <<" ">>)
                        \/ endsWith(prev, <<"\n">>)
                        \/ endsWith(prev, <<"\t">>))
    IN  prev \o (IF needsSpace THEN <<" ">> ELSE <<>>) \o next

appendWithSmartSpace(prev, next) ==
    IF prev = <<>> THEN next
    ELSE LET needsSpace == ~(\/ endsWith(prev, <<" ">>)
                             \/ endsWith(prev, <<"\n">>)
                             \/ endsWith(prev, <<"\t">>))
         IN  prev \o (IF needsSpace THEN <<" ">> ELSE <<>>) \o next

\* mutant of normaliseGroup: a blank group stays blank
normaliseGroup_NoDefault(g) ==
    trim(collapseWhitespace(g))

normaliseGroup(g) ==
    LET s == trim(collapseWhitespace(g))
    IN  IF Len(s) > 0 THEN s ELSE DEFAULT_GROUP

(***************************************************************************)
(* The normalisation pipelines of the two parseCsvFile callbacks.  `data`   *)
(* is results.data: a sequence of records, each a sequence of cells.        *)
(***************************************************************************)
\* mutant of makeRow: the id is made without the index of the record
makeRow_NoIndex(arr, idx) ==
    LET col0 == trim(safeStr(at(arr, 0)))
        col1 == trim(safeStr(at(arr, 1)))
    IN  IF Len(arr) <= 1
        THEN [id    |-> slice0(col0, 24),
              group |-> DEFAULT_GROUP,
              text  |-> col0,
              order |-> idx]
        ELSE LET group == normaliseGroup(col0)
                 text  == col1
             IN  [id    |-> slice0(group, 18) \o <<"-">> \o slice0(text, 18),
                  group |-> group,
                  text  |-> text,
                  order |-> idx]

\* grouped, first .map: one CommentRow per raw record, idx 0-based
makeRow(arr, idx) ==
    LET col0 == trim(safeStr(at(arr, 0)))
        col1 == trim(safeStr(at(arr, 1)))
    IN  IF Len(arr) <= 1
        THEN [id    |-> numToString(idx) \o <<"-">> \o slice0(col0, 24),
              group |-> DEFAULT_GROUP,
              text  |-> col0,
              order |-> idx]
        ELSE LET group == normaliseGroup(col0)
                 text  == col1
             IN  [id    |-> numToString(idx) \o <<"-">> \o slice0(group, 18)
                                \o <<"-">> \o slice0(text, 18),
                  group |-> group,
                  text  |-> text,
                  order |-> idx]

\* mutant of parsedRows: the surviving rows are renumbered
parsedRows_Renumbers(data) ==
    LET made   == [i \in 1..Len(data) |-> makeRow(data[i], i - 1)]
        normed == [i \in 1..Len(made) |->
                     [made[i] EXCEPT !.group = normaliseGroup(@),
                                     !.text  = trim(@)]]
        kept   == SelectSeq(normed, LAMBDA r : Len(r.text) > 0)
    IN  [i \in 1..Len(kept) |-> [kept[i] EXCEPT !.order = i - 1]]

\* grouped: the whole pipeline giving `parsed`
parsedRows(data) ==
    LET made   == [i \in 1..Len(data) |-> makeRow(data[i], i - 1)]
        normed == [i \in 1..Len(made) |->
                     [made[i] EXCEPT !.group = normaliseGroup(@),
                                     !.text  = trim(@)]]
    IN  SelectSeq(normed, LAMBDA r : Len(r.text) > 0)

\* arr.map(v => v == null ? "" : String(v)).join(",")
RECURSIVE joinCells(_)
joinCells(arr) ==
    IF arr = <<>> THEN <<>>
    ELSE IF Len(arr) = 1 THEN safeStr(arr[1])
         ELSE safeStr(arr[1]) \o <<",">> \o joinCells(Tail(arr))

\* mutant of parsedSentences: empty lines are dropped before the trim
parsedSentences_FilterBeforeTrim(data) ==
    LET joined == [i \in 1..Len(data) |-> joinCells(data[i])]
        kept   == SelectSeq(joined, LAMBDA t : Len(t) > 0)
    IN  [i \in 1..Len(kept) |-> trim(kept[i])]

\* plain: the whole pipeline giving the local `rows`
parsedSentences(data) ==
    LET joined  == [i \in 1..Len(data) |-> joinCells(data[i])]
        trimmed == [i \in 1..Len(joined) |-> trim(joined[i])]
    IN  SelectSeq(trimmed, LAMBDA t : Len(t) > 0)

(***************************************************************************)
(* The filters.                                                             *)
(***************************************************************************)
\* mutant of filterRows: the query is looked up in the text alone
filterRows_TextOnly(nextRows, nextQuery, nextGroup) ==
    LET q    == toLowerCase(trim(nextQuery))
        out1 == IF nextGroup # ALL
                THEN SelectSeq(nextRows, LAMBDA r : r.group = nextGroup)
                ELSE nextRows
    IN  IF q # <<>>
        THEN SelectSeq(out1, LAMBDA r : includes(toLowerCase(r.text), q))
        ELSE out1

\* grouped: the list `out` that applyFilters computes
filterRows(nextRows, nextQuery, nextGroup) ==
    LET q    == toLowerCase(trim(nextQuery))
        out1 == IF nextGroup # ALL
                THEN SelectSeq(nextRows, LAMBDA r : r.group = nextGroup)
                ELSE nextRows
    IN  IF q # <<>>
        THEN SelectSeq(out1,
                 LAMBDA r : includes(toLowerCase(r.group \o <<" ">> \o r.text), q))
        ELSE out1

\* grouped: the options of the group <select> besides "ALL"
groups(rs) == {rs[i].group : i \in 1..Len(rs)}

\* plain: 0-based positions in ss of the sentences onFilter keeps for val
RECURSIVE matchingOrds(_, _, _)
matchingOrds(ss, val, from) ==
    IF from > Len(ss) THEN <<>>
    ELSE (IF val = <<>> \/ includes(toLowerCase(ss[from]), toLowerCase(val))
          THEN <<from - 1>> ELSE <<>>) \o matchingOrds(ss, val, from + 1)

\* plain: the list onFilter stores in `filtered`
filterSentences(ss, val) ==
    IF val = <<>> THEN ss
    ELSE SelectSeq(ss, LAMBDA t : includes(toLowerCase(t), toLowerCase(val)))

(***************************************************************************)
(* Inputs: the files a user picks or drops, what is typed in the filter     *)
(* box and in the editor.                                                   *)
(***************************************************************************)
Files == <<
    [name |-> <<"a", ".", "c", "s", "v">>,
     data |-> << <<Some(<<" ">>), Some(<<"x", " ">>)>>,
                 <<Some(<<"A">>), Some(<<"x">>)>> >>],
    [name |-> <<"b", ".", "C", "S", "V">>,
     data |-> << <<Some(<<"x">>)>> >>],
    [name |-> <<"e", ".", "c", "s", "v">>,
     data |-> << <<Some(<<" ">>)>>,
                 <<Some(<<"\t">>)>> >>],
    [name |-> <<"n", ".", "t", "x", "t">>,
     data |-> << <<Some(<<"x">>)>> >>] >>

CsvSuffix == <<".", "c", "s", "v">>

\* the files offered by the picker (accept=".csv")
Pickable == {f \in 1..Len(Files) : endsWith(toLowerCase(Files[f].name), CsvSuffix)}

\* what a drop carries: 0 for no file, else a file (".CSV" or ".txt")
Droppable == {0, 2, 4}

Queries == {<<>>, <<"A">>}

EditorInputs == {<<"x", " ">>}

NoCommentsMsg == "No comments found in the CSV."
NoSentencesMsg == "No sentences found in the CSV."
ReadFailedMsg == "Failed to read the CSV file."
DropMsg == "Please drop a .csv file."
ClipboardMsg == "Clipboard copy failed. You can select and copy manually."

(***************************************************************************)
(* Initial state: the useState defaults of the mounted variant.             *)
(***************************************************************************)
Init ==
    /\ variant \in {"grouped", "plain"}
    /\ rows = <<>>
    /\ sentences = <<>>
    /\ filtered = <<>>
    /\ filteredOrd = <<>>
    /\ selectedId = None
    /\ selectedIndex = None
    /\ clickedOrd = None
    /\ editorValue = <<>>
    /\ copied = FALSE
    /\ error = None
    /\ fileName = None
    /\ query = <<>>
    /\ selectedGroup = ALL
    /\ parsing = {}
    /\ writing = <<>>
    /\ timers = 0
    /\ copiedText = None
    /\ probe = None

hasData == IF variant = "grouped" THEN Len(rows) > 0 ELSE Len(sentences) > 0

(***************************************************************************)
(* Grouped variant, src/src/main.tsx.                                       *)
(***************************************************************************)
\* mutant of applyFilters: the selection is looked up in nextRows, not in out
applyFilters_ChecksAllRows(nextRows, nextQuery, nextGroup) ==
    LET out == filterRows(nextRows, nextQuery, nextGroup)
    IN  /\ filtered' = out
        /\ selectedId' =
             IF /\ selectedId # None
                /\ selectedId[1] # <<>>
                /\ ~(\E i \in 1..Len(nextRows) : nextRows[i].id = selectedId[1])
             THEN None
             ELSE selectedId

\* mutant of applyFilters: the selection check is left out
applyFilters_NeverClears(nextRows, nextQuery, nextGroup) ==
    /\ filtered' = filterRows(nextRows, nextQuery, nextGroup)
    /\ selectedId' = selectedId

\* mutant of applyFilters: every filter change drops the selection
applyFilters_AlwaysClears(nextRows, nextQuery, nextGroup) ==
    /\ filtered' = filterRows(nextRows, nextQuery, nextGroup)
    /\ selectedId' = None

\* setFiltered(out) and the selection check at the end of applyFilters
applyFilters(nextRows, nextQuery, nextGroup) ==
    LET out == filterRows(nextRows, nextQuery, nextGroup)
    IN  /\ filtered' = out
        /\ selectedId' =
             IF /\ selectedId # None
                /\ selectedId[1] # <<>>
                /\ ~(\E i \in 1..Len(out) : out[i].id = selectedId[1])
             THEN None
             ELSE selectedId

\* the synchronous part: setError(null); setFileName(file.name); Papa.parse(file, ...)
parseCsvFile(f) ==
    /\ f \notin parsing
    /\ Cardinality(parsing) < MaxParsing
    /\ error' = None
    /\ fileName' = Some(Files[f].name)
    /\ parsing' = parsing \cup {f}
    /\ UNCHANGED <<variant, rows, sentences, filtered, filteredOrd, selectedId,
                   selectedIndex, clickedOrd, editorValue, copied, query,
                   selectedGroup, writing, timers, copiedText>>

onFilePick(f) ==
    /\ variant = "grouped"
    /\ parseCsvFile(f)

\* mutant of onDrop: a rejected drop also forgets the file name
onDrop_RejectClearsName(d) ==
    /\ variant = "grouped"
    /\ IF d # 0 /\ endsWith(toLowerCase(Files[d].name), CsvSuffix)
       THEN parseCsvFile(d)
       ELSE /\ error' = Some(DropMsg)
            /\ fileName' = None
            /\ UNCHANGED <<variant, rows, sentences, filtered, filteredOrd,
                           selectedId, selectedIndex, clickedOrd, editorValue,
                           copied, query, selectedGroup, parsing,
                           writing, timers, copiedText>>

onDrop(d) ==
    /\ variant = "grouped"
    /\ IF d # 0 /\ endsWith(toLowerCase(Files[d].name), CsvSuffix)
       THEN parseCsvFile(d)
       ELSE /\ error' = Some(DropMsg)
            /\ UNCHANGED <<variant, rows, sentences, filtered, filteredOrd,
                           selectedId, selectedIndex, clickedOrd, editorValue,
                           copied, fileName, query, selectedGroup, parsing,
                           writing, timers, copiedText>>

\* mutant of papaComplete: a successful import leaves the filter state alone
papaComplete_KeepsFilter(f) ==
    /\ variant = "grouped"
    /\ LET parsed == parsedRows(Files[f].data)
       IN  IF Len(parsed) = 0
           THEN /\ error' = Some(NoCommentsMsg)
                /\ rows' = <<>>
                /\ filtered' = <<>>
                /\ selectedId' = None
                /\ editorValue' = <<>>
                /\ selectedGroup' = ALL
                /\ query' = <<>>
                /\ UNCHANGED <<copied, copiedText>>
           ELSE /\ rows' = parsed
                /\ selectedId' = None
                /\ editorValue' = <<>>
                /\ copied' = FALSE
                /\ copiedText' = None
                /\ filtered' = parsed
                /\ UNCHANGED <<error, selectedGroup, query>>
    /\ parsing' = parsing \ {f}
    /\ UNCHANGED <<variant, sentences, filteredOrd, selectedIndex, clickedOrd,
                   fileName, writing, timers>>

\* mutant of papaComplete: an import without rows leaves the editor buffer alone
papaComplete_EmptyKeepsBuffer(f) ==
    /\ variant = "grouped"
    /\ LET parsed == parsedRows(Files[f].data)
       IN  IF Len(parsed) = 0
           THEN /\ error' = Some(NoCommentsMsg)
                /\ rows' = <<>>
                /\ filtered' = <<>>
                /\ selectedId' = None
                /\ selectedGroup' = ALL
                /\ query' = <<>>
                /\ UNCHANGED <<copied, copiedText, editorValue>>
           ELSE /\ rows' = parsed
                /\ selectedGroup' = ALL
                /\ query' = <<>>
                /\ selectedId' = None
                /\ editorValue' = <<>>
                /\ copied' = FALSE
                /\ copiedText' = None
                /\ filtered' = parsed
                /\ UNCHANGED <<error>>
    /\ parsing' = parsing \ {f}
    /\ UNCHANGED <<variant, sentences, filteredOrd, selectedIndex, clickedOrd,
                   fileName, writing, timers>>

\* Papa's `complete` callback of the import of file f
papaComplete(f) ==
    /\ variant = "grouped"
    /\ LET parsed == parsedRows(Files[f].data)
       IN  IF Len(parsed) = 0
           THEN /\ error' = Some(NoCommentsMsg)
                /\ rows' = <<>>
                /\ filtered' = <<>>
                /\ selectedId' = None
                /\ editorValue' = <<>>
                /\ selectedGroup' = ALL
                /\ query' = <<>>
                /\ UNCHANGED <<copied, copiedText>>
           ELSE /\ rows' = parsed
                /\ selectedGroup' = ALL
                /\ query' = <<>>
                /\ selectedId' = None
                /\ editorValue' = <<>>
                /\ copied' = FALSE
                /\ copiedText' = None
                /\ filtered' = parsed
                /\ UNCHANGED <<error>>
    /\ parsing' = parsing \ {f}
    /\ UNCHANGED <<variant, sentences, filteredOrd, selectedIndex, clickedOrd,
                   fileName, writing, timers>>

\* Papa's `error` callback of the import of file f
papaError(f) ==
    /\ variant = "grouped"
    /\ error' = Some(ReadFailedMsg)
    /\ parsing' = parsing \ {f}
    /\ UNCHANGED <<variant, rows, sentences, filtered, filteredOrd, selectedId,
                   selectedIndex, clickedOrd, editorValue, copied, fileName,
                   query, selectedGroup, writing, timers, copiedText>>

\* mutant of onRowClick: the row text is concatenated without the smart space
onRowClick_PlainConcat(i) ==
    /\ variant = "grouped"
    /\ hasData
    /\ Len(editorValue \o filtered[i].text) <= MaxEditorLen
    /\ selectedId' = Some(filtered[i].id)
    /\ editorValue' = editorValue \o filtered[i].text
    /\ copied' = FALSE
    /\ copiedText' = None
    /\ UNCHANGED <<variant, rows, sentences, filtered, filteredOrd,
                   selectedIndex, clickedOrd, error, fileName, query,
                   selectedGroup, parsing, writing, timers>>

\* a click on the i-th rendered row (1-based position in `filtered`)
onRowClick(i) ==
    /\ variant = "grouped"
    /\ hasData
    /\ Len(appendWithSmartSpace(editorValue, filtered[i].text)) <= MaxEditorLen
    /\ selectedId' = Some(filtered[i].id)
    /\ editorValue' = appendWithSmartSpace(editorValue, filtered[i].text)
    /\ copied' = FALSE
    /\ copiedText' = None
    /\ UNCHANGED <<variant, rows, sentences, filtered, filteredOrd,
                   selectedIndex, clickedOrd, error, fileName, query,
                   selectedGroup, parsing, writing, timers>>

\* up to the await: the write is requested with the buffer of this render
copyToClipboard ==
    /\ variant = "grouped"
    /\ Len(writing) + timers < MaxCopies
    /\ writing' = Append(writing, editorValue)
    /\ UNCHANGED <<variant, rows, sentences, filtered, filteredOrd, selectedId,
                   selectedIndex, clickedOrd, editorValue, copied, error,
                   fileName, query, selectedGroup, parsing, timers, copiedText>>

\* mutant of writeResolved: the revert timer is not set
writeResolved_NoTimer ==
    /\ variant = "grouped"
    /\ writing # <<>>
    /\ copiedText' = Some(Head(writing))
    /\ copied' = TRUE
    /\ writing' = Tail(writing)
    /\ UNCHANGED <<variant, rows, sentences, filtered, filteredOrd, selectedId,
                   selectedIndex, clickedOrd, editorValue, error, fileName,
                   query, selectedGroup, parsing, timers>>

\* the oldest write resolved: setCopied(true); setTimeout(...)
writeResolved ==
    /\ variant = "grouped"
    /\ writing # <<>>
    /\ copiedText' = Some(Head(writing))
    /\ copied' = TRUE
    /\ timers' = timers + 1
    /\ writing' = Tail(writing)
    /\ UNCHANGED <<variant, rows, sentences, filtered, filteredOrd, selectedId,
                   selectedIndex, clickedOrd, editorValue, error, fileName,
                   query, selectedGroup, parsing>>

\* mutant of writeRejected: the catch branch also shows the indicator
writeRejected_ShowsCopied ==
    /\ variant = "grouped"
    /\ writing # <<>>
    /\ error' = Some(ClipboardMsg)
    /\ copied' = TRUE
    /\ writing' = Tail(writing)
    /\ UNCHANGED <<variant, rows, sentences, filtered, filteredOrd, selectedId,
                   selectedIndex, clickedOrd, editorValue, fileName,
                   query, selectedGroup, parsing, timers, copiedText>>

\* the oldest write was rejected: the catch branch
writeRejected ==
    /\ variant = "grouped"
    /\ writing # <<>>
    /\ error' = Some(ClipboardMsg)
    /\ writing' = Tail(writing)
    /\ UNCHANGED <<variant, rows, sentences, filtered, filteredOrd, selectedId,
                   selectedIndex, clickedOrd, editorValue, copied, fileName,
                   query, selectedGroup, parsing, timers, copiedText>>

\* a revert timer fires: setCopied(false)
copiedTimeout ==
    /\ variant = "grouped"
    /\ timers > 0
    /\ copied' = FALSE
    /\ copiedText' = None
    /\ timers' = timers - 1
    /\ UNCHANGED <<variant, rows, sentences, filtered, filteredOrd, selectedId,
                   selectedIndex, clickedOrd, editorValue, error, fileName,
                   query, selectedGroup, parsing, writing>>

\* mutant of clearAll: the group filter is not reset
clearAll_KeepsGroup ==
    /\ variant = "grouped"
    /\ hasData
    /\ rows' = <<>>
    /\ filtered' = <<>>
    /\ selectedId' = None
    /\ editorValue' = <<>>
    /\ fileName' = None
    /\ query' = <<>>
    /\ error' = None
    /\ UNCHANGED <<variant, sentences, filteredOrd, selectedIndex, clickedOrd,
                   copied, selectedGroup, parsing, writing, timers, copiedText>>

\* the Clear button is rendered only when hasData
clearAll ==
    /\ variant = "grouped"
    /\ hasData
    /\ rows' = <<>>
    /\ filtered' = <<>>
    /\ selectedId' = None
    /\ editorValue' = <<>>
    /\ fileName' = None
    /\ query' = <<>>
    /\ selectedGroup' = ALL
    /\ error' = None
    /\ UNCHANGED <<variant, sentences, filteredOrd, selectedIndex, clickedOrd,
                   copied, parsing, writing, timers, copiedText>>

onFilterText(val) ==
    /\ variant = "grouped"
    /\ val # query
    /\ query' = val
    /\ applyFilters(rows, val, selectedGroup)
    /\ UNCHANGED <<variant, rows, sentences, filteredOrd, selectedIndex,
                   clickedOrd, editorValue, copied, error, fileName,
                   selectedGroup, parsing, writing, timers, copiedText>>

\* mutant of onFilterGroup: the filter runs with the group of the last render
onFilterGroup_StaleGroup(val) ==
    /\ variant = "grouped"
    /\ hasData
    /\ val # selectedGroup
    /\ selectedGroup' = val
    /\ applyFilters(rows, query, selectedGroup)
    /\ UNCHANGED <<variant, rows, sentences, filteredOrd, selectedIndex,
                   clickedOrd, editorValue, copied, error, fileName, query,
                   parsing, writing, timers, copiedText>>

\* the <select> is disabled without data; its options are "ALL" and the groups
onFilterGroup(val) ==
    /\ variant = "grouped"
    /\ hasData
    /\ val # selectedGroup
    /\ selectedGroup' = val
    /\ applyFilters(rows, query, val)
    /\ UNCHANGED <<variant, rows, sentences, filteredOrd, selectedIndex,
                   clickedOrd, editorValue, copied, error, fileName, query,
                   parsing, writing, timers, copiedText>>

\* the Textarea's onChange
onEditorChange(val) ==
    /\ variant = "grouped"
    /\ val # editorValue
    /\ editorValue' = val
    /\ UNCHANGED <<variant, rows, sentences, filtered, filteredOrd, selectedId,
                   selectedIndex, clickedOrd, copied, error, fileName, query,
                   selectedGroup, parsing, writing, timers, copiedText>>

NextGrouped ==
    \/ \E f \in Pickable : onFilePick(f) /\ UNCHANGED probe
    \/ \E d \in Droppable : onDrop(d) /\ UNCHANGED probe
    \/ \E f \in parsing : papaComplete(f) /\ UNCHANGED probe
    \/ \E f \in parsing : papaError(f) /\ UNCHANGED probe
    \/ \E i \in 1..Len(filtered) : onRowClick(i) /\ UNCHANGED probe
    \/ copyToClipboard /\ UNCHANGED probe
    \/ writeResolved /\ UNCHANGED probe
    \/ writeRejected /\ UNCHANGED probe
    \/ copiedTimeout /\ UNCHANGED probe
    \/ clearAll /\ UNCHANGED probe
    \/ \E val \in Queries : onFilterText(val) /\ UNCHANGED probe
    \/ \E val \in {ALL} \cup groups(rows) : onFilterGroup(val) /\ UNCHANGED probe
    \/ \E val \in EditorInputs : onEditorChange(val) /\ UNCHANGED probe

(***************************************************************************)
(* Plain variant, src/unnamed/part_000.                                     *)
(***************************************************************************)
parseCsvFileP(f) ==
    /\ f \notin parsing
    /\ Cardinality(parsing) < MaxParsing
    /\ error' = None
    /\ fileName' = Some(Files[f].name)
    /\ parsing' = parsing \cup {f}
    /\ UNCHANGED <<variant, rows, sentences, filtered, filteredOrd, selectedId,
                   selectedIndex, clickedOrd, editorValue, copied, query,
                   selectedGroup, writing, timers, copiedText>>

onFilePickP(f) ==
    /\ variant = "plain"
    /\ parseCsvFileP(f)

onDropP(d) ==
    /\ variant = "plain"
    /\ IF d # 0 /\ endsWith(toLowerCase(Files[d].name), CsvSuffix)
       THEN parseCsvFileP(d)
       ELSE /\ error' = Some(DropMsg)
            /\ UNCHANGED <<variant, rows, sentences, filtered, filteredOrd,
                           selectedId, selectedIndex, clickedOrd, editorValue,
                           copied, fileName, query, selectedGroup, parsing,
                           writing, timers, copiedText>>

\* Papa's `complete` callback of the import of file f
papaCompleteP(f) ==
    /\ variant = "plain"
    /\ LET parsed == parsedSentences(Files[f].data)
       IN  IF Len(parsed) = 0
           THEN /\ error' = Some(NoSentencesMsg)
                /\ sentences' = <<>>
                /\ filtered' = <<>>
                /\ filteredOrd' = <<>>
                /\ selectedIndex' = None
                /\ clickedOrd' = None
                /\ editorValue' = <<>>
           ELSE /\ sentences' = parsed
                /\ filtered' = parsed
                /\ filteredOrd' = [i \in 1..Len(parsed) |-> i - 1]
                /\ selectedIndex' = None
                /\ clickedOrd' = None
                /\ editorValue' = <<>>
                /\ UNCHANGED <<error>>
    /\ parsing' = parsing \ {f}
    /\ UNCHANGED <<variant, rows, selectedId, copied, fileName, query,
                   selectedGroup, writing, timers, copiedText>>

\* Papa's `error` callback of the import of file f
papaErrorP(f) ==
    /\ variant = "plain"
    /\ error' = Some(ReadFailedMsg)
    /\ parsing' = parsing \ {f}
    /\ UNCHANGED <<variant, rows, sentences, filtered, filteredOrd, selectedId,
                   selectedIndex, clickedOrd, editorValue, copied, fileName,
                   query, selectedGroup, writing, timers, copiedText>>

\* a click on the rendered sentence with 0-based index idx
onSentenceClick(idx) ==
    /\ variant = "plain"
    /\ hasData
    /\ Len(appendWithSmartSpace(editorValue, filtered[idx + 1])) <= MaxEditorLen
    /\ selectedIndex' = Some(idx)
    /\ clickedOrd' = Some(filteredOrd[idx + 1])
    /\ editorValue' = appendWithSmartSpace(editorValue, filtered[idx + 1])
    /\ copied' = FALSE
    /\ copiedText' = None
    /\ UNCHANGED <<variant, rows, sentences, filtered, filteredOrd, selectedId,
                   error, fileName, query, selectedGroup, parsing, writing,
                   timers>>

copyToClipboardP ==
    /\ variant = "plain"
    /\ Len(writing) + timers < MaxCopies
    /\ writing' = Append(writing, editorValue)
    /\ UNCHANGED <<variant, rows, sentences, filtered, filteredOrd, selectedId,
                   selectedIndex, clickedOrd, editorValue, copied, error,
                   fileName, query, selectedGroup, parsing, timers, copiedText>>

writeResolvedP ==
    /\ variant = "plain"
    /\ writing # <<>>
    /\ copiedText' = Some(Head(writing))
    /\ copied' = TRUE
    /\ timers' = timers + 1
    /\ writing' = Tail(writing)
    /\ UNCHANGED <<variant, rows, sentences, filtered, filteredOrd, selectedId,
                   selectedIndex, clickedOrd, editorValue, error, fileName,
                   query, selectedGroup, parsing>>

writeRejectedP ==
    /\ variant = "plain"
    /\ writing # <<>>
    /\ error' = Some(ClipboardMsg)
    /\ writing' = Tail(writing)
    /\ UNCHANGED <<variant, rows, sentences, filtered, filteredOrd, selectedId,
                   selectedIndex, clickedOrd, editorValue, copied, fileName,
                   query, selectedGroup, parsing, timers, copiedText>>

copiedTimeoutP ==
    /\ variant = "plain"
    /\ timers > 0
    /\ copied' = FALSE
    /\ copiedText' = None
    /\ timers' = timers - 1
    /\ UNCHANGED <<variant, rows, sentences, filtered, filteredOrd, selectedId,
                   selectedIndex, clickedOrd, editorValue, error, fileName,
                   query, selectedGroup, parsing, writing>>

clearAllP ==
    /\ variant = "plain"
    /\ hasData
    /\ sentences' = <<>>
    /\ filtered' = <<>>
    /\ filteredOrd' = <<>>
    /\ selectedIndex' = None
    /\ clickedOrd' = None
    /\ editorValue' = <<>>
    /\ fileName' = None
    /\ query' = <<>>
    /\ error' = None
    /\ UNCHANGED <<variant, rows, selectedId, copied, selectedGroup, parsing,
                   writing, timers, copiedText>>

onFilter(val) ==
    /\ variant = "plain"
    /\ val # query
    /\ query' = val
    /\ IF val = <<>>
       THEN /\ filtered' = sentences
            /\ filteredOrd' = [i \in 1..Len(sentences) |-> i - 1]
            /\ UNCHANGED <<selectedIndex, clickedOrd>>
       ELSE /\ filtered' = filterSentences(sentences, val)
            /\ filteredOrd' = matchingOrds(sentences, val, 1)
            /\ selectedIndex' = None
            /\ clickedOrd' = None
    /\ UNCHANGED <<variant, rows, sentences, selectedId, editorValue, copied,
                   error, fileName, selectedGroup, parsing, writing, timers,
                   copiedText>>

onEditorChangeP(val) ==
    /\ variant = "plain"
    /\ val # editorValue
    /\ editorValue' = val
    /\ UNCHANGED <<variant, rows, sentences, filtered, filteredOrd, selectedId,
                   selectedIndex, clickedOrd, copied, error, fileName, query,
                   selectedGroup, parsing, writing, timers, copiedText>>

NextPlain ==
    \/ \E f \in Pickable : onFilePickP(f) /\ UNCHANGED probe
    \/ \E d \in Droppable : onDropP(d) /\ UNCHANGED probe
    \/ \E f \in parsing : papaCompleteP(f) /\ UNCHANGED probe
    \/ \E f \in parsing : papaErrorP(f) /\ UNCHANGED probe
    \/ \E idx \in 0..(Len(filtered) - 1) : onSentenceClick(idx) /\ UNCHANGED probe
    \/ copyToClipboardP /\ UNCHANGED probe
    \/ writeResolvedP /\ UNCHANGED probe
    \/ writeRejectedP /\ UNCHANGED probe
    \/ copiedTimeoutP /\ UNCHANGED probe
    \/ clearAllP /\ UNCHANGED probe
    \/ \E val \in Queries : onFilter(val) /\ UNCHANGED probe
    \/ \E val \in EditorInputs : onEditorChangeP(val) /\ UNCHANGED probe

(***************************************************************************)
(* Specifications: either variant mounted, or one of them.                  *)
(***************************************************************************)
Next == NextGrouped \/ NextPlain

Spec == Init /\ [][Next]_vars

\* the App whose pending revert timers fire eventually, as timers do
SpecTimers ==
    /\ Init
    /\ [][Next]_vars
    /\ WF_vars(copiedTimeout /\ UNCHANGED probe)
    /\ WF_vars(copiedTimeoutP /\ UNCHANGED probe)

InitGrouped == Init /\ variant = "grouped"

SpecGrouped == InitGrouped /\ [][NextGrouped]_vars

InitPlain == Init /\ variant = "plain"

SpecPlain == InitPlain /\ [][NextPlain]_vars

(***************************************************************************)
(* The helpers on their own.  The module ends with runtime tests that call  *)
(* the helpers with literal arguments (main.tsx 263-283); here the          *)
(* arguments are drawn from bounded sets, the App itself stays unmounted    *)
(* and `probe` holds the arguments and, after the call, the result.         *)
(***************************************************************************)
MaxStrLen == 2       \* longest string given to a helper

\* all strings over the alphabet of length at most n
Strs(alphabet, n) == UNION {[1..k -> alphabet] : k \in 0..n}

\* the state variables of the App
appVars == <<variant, rows, sentences, filtered, filteredOrd, selectedId,
             selectedIndex, clickedOrd, editorValue, copied, error, fileName,
             query, selectedGroup, parsing, writing, timers, copiedText>>

\* space, newline, tab and an ordinary character
AppendAlphabet == {" ", "\n", "\t", "x"}

\* the App's state while only a helper runs: the useState defaults
Unmounted ==
    /\ rows = <<>> /\ sentences = <<>> /\ filtered = <<>> /\ filteredOrd = <<>>
    /\ selectedId = None /\ selectedIndex = None /\ clickedOrd = None
    /\ editorValue = <<>> /\ copied = FALSE /\ error = None /\ fileName = None
    /\ query = <<>> /\ selectedGroup = ALL /\ parsing = {} /\ writing = <<>>
    /\ timers = 0 /\ copiedText = None

InitAppend ==
    /\ variant = "grouped"
    /\ Unmounted
    /\ \E prev \in Strs(AppendAlphabet, MaxStrLen) :
       \E next \in Strs(AppendAlphabet, MaxStrLen) :
           probe = [prev |-> prev, next |-> next, out |-> None]

\* const t = appendWithSmartSpace(prev, next)
callAppend ==
    /\ probe.out = None
    /\ probe' = [probe EXCEPT
                   !.out = Some(appendWithSmartSpace(probe.prev, probe.next))]
    /\ UNCHANGED appVars

SpecAppend == InitAppend /\ [][callAppend]_vars

\* results.data of the tokenizer: at most MaxRecords records of at most
\* MaxCells cells; a cell is null, blank, or text with a whitespace run inside
MaxRecords == 2
MaxCells == 3

CellValues == {None, Some(<<" ">>), Some(<<"a", " ", "\t", "b", " ">>)}

Records == Strs(CellValues, MaxCells)

InitNormalise ==
    /\ variant = "grouped"
    /\ Unmounted
    /\ \E k \in 0..MaxRecords :
       \E data \in [1..k -> Records] : probe = [data |-> data, out |-> None]

\* the body of the try block up to `parsed`
callParsedRows ==
    /\ probe.out = None
    /\ probe' = [probe EXCEPT !.out = Some(parsedRows(probe.data))]
    /\ UNCHANGED appVars

SpecNormalise == InitNormalise /\ [][callParsedRows]_vars

\* plain: at most MaxLines records of at most MaxJoin cells; a cell is null,
\* blank, or text with whitespace around it
MaxLines == 3
MaxJoin == 2

PlainCellValues == {None, Some(<<" ">>), Some(<<" ", "a", " ">>)}

PlainRecords == Strs(PlainCellValues, MaxJoin)

InitNormalisePlain ==
    /\ variant = "plain"
    /\ Unmounted
    /\ \E k \in 0..MaxLines :
       \E data \in [1..k -> PlainRecords] : probe = [data |-> data, out |-> None]

\* the body of the try block up to `rows`
callParsedSentences ==
    /\ probe.out = None
    /\ probe' = [probe EXCEPT !.out = Some(parsedSentences(probe.data))]
    /\ UNCHANGED appVars

SpecNormalisePlain == InitNormalisePlain /\ [][callParsedSentences]_vars

\* the filter on its own: at most MaxFilterRows rows made of two-cell
\* records, a query of at most MaxStrLen characters, a group choice
MaxFilterRows == 2

FilterCells == {Some(<<"A">>), Some(<<"b">>), Some(ALL)}

QueryAlphabet == {"a", "B", " "}

InitFilter ==
    /\ variant = "grouped"
    /\ Unmounted
    /\ \E k \in 0..MaxFilterRows :
       \E data \in [1..k -> [1..2 -> FilterCells]] :
       \E q \in Strs(QueryAlphabet, MaxStrLen) :
       \E g \in {ALL, <<"A">>, <<"b">>} :
           probe = [rows |-> parsedRows(data), query |-> q, group |-> g,
                    out |-> None]

\* the statements of applyFilters that compute `out`
callFilterRows ==
    /\ probe.out = None
    /\ probe' = [probe EXCEPT
                   !.out = Some(filterRows(probe.rows, probe.query, probe.group))]
    /\ UNCHANGED appVars

SpecFilter == InitFilter /\ [][callFilterRows]_vars

(***************************************************************************)
(* The App with a record of its imports.  `probe.snap` keeps, for every     *)
(* import in flight, the state fields as they were when parseCsvFile was    *)
(* called for it.  `probe.order` lists, in the order of their start, the    *)
(* first two imports of the current run of overlapping imports (a run       *)
(* begins with an import started while none is in flight and ends when     *)
(* none is in flight again), `probe.done` holds the imports of the run      *)
(* whose `complete` callback has run, and `probe.more` tells that a third   *)
(* import joined the run, after which the run is not recorded further.  The *)
(* steps are those of the App's handlers that import, clear and click,      *)
(* each extended with the record.                                           *)
(***************************************************************************)
\* the fields an import may replace, as a record
fields ==
    [rows |-> rows, sentences |-> sentences, filtered |-> filtered,
     selectedId |-> selectedId, selectedIndex |-> selectedIndex,
     editorValue |-> editorValue, query |-> query,
     selectedGroup |-> selectedGroup, fileName |-> fileName]

\* what the step adds to the record; completes: it is a `complete` callback
record(completes) ==
    LET started == parsing' \ parsing
        ended   == parsing \ parsing'
        joins   == started # {} /\ parsing # {}
        over    == parsing' = {} \/ (joins /\ Len(probe.order) >= 2) \/ probe.more
    IN  probe' =
          [snap  |-> [g \in parsing' |->
                        IF g \in parsing THEN probe.snap[g] ELSE fields],
           order |-> IF over THEN <<>>
                     ELSE IF started # {}
                          THEN Append(probe.order, CHOOSE g \in started : TRUE)
                          ELSE probe.order,
           more  |-> parsing' # {} /\ over,
           done  |-> IF over THEN {}
                     ELSE IF completes THEN probe.done \cup ended
                          ELSE probe.done]

InitImports ==
    /\ variant \in {"grouped", "plain"}
    /\ Unmounted
    /\ probe = [snap |-> <<>>, order |-> <<>>, more |-> FALSE, done |-> {}]

NextImports ==
    \/ \E f \in Pickable : onFilePick(f) /\ record(FALSE)
    \/ \E d \in Droppable : onDrop(d) /\ record(FALSE)
    \/ \E f \in parsing : papaComplete(f) /\ record(TRUE)
    \/ \E f \in parsing : papaError(f) /\ record(FALSE)
    \/ \E i \in 1..Len(filtered) : onRowClick(i) /\ record(FALSE)
    \/ clearAll /\ record(FALSE)
    \/ \E f \in Pickable : onFilePickP(f) /\ record(FALSE)
    \/ \E d \in Droppable : onDropP(d) /\ record(FALSE)
    \/ \E f \in parsing : papaCompleteP(f) /\ record(TRUE)
    \/ \E f \in parsing : papaErrorP(f) /\ record(FALSE)
    \/ \E idx \in 0..(Len(filtered) - 1) : onSentenceClick(idx) /\ record(FALSE)
    \/ clearAllP /\ record(FALSE)

SpecImports == InitImports /\ [][NextImports]_vars

(***************************************************************************)
(* The App with a record of the clicks.  `probe.clicks` lists the texts of  *)
(* the rows clicked since the editor buffer was last emptied by an import   *)
(* or a clear; `probe.typed` tells that the buffer was edited by hand       *)
(* since then (the clicks are then no longer recorded).  The steps are all  *)
(* the steps of the App.                                                    *)
(***************************************************************************)
clicked(text) ==
    probe' = IF probe.typed THEN probe
             ELSE [probe EXCEPT !.clicks = Append(@, text)]

emptied == probe' = [clicks |-> <<>>, typed |-> FALSE]

typed == probe' = [clicks |-> <<>>, typed |-> TRUE]

InitClicks ==
    /\ variant \in {"grouped", "plain"}
    /\ Unmounted
    /\ probe = [clicks |-> <<>>, typed |-> FALSE]

NextClicks ==
    \/ \E f \in Pickable : onFilePick(f) /\ UNCHANGED probe
    \/ \E d \in Droppable : onDrop(d) /\ UNCHANGED probe
    \/ \E f \in parsing : papaComplete(f) /\ emptied
    \/ \E f \in parsing : papaError(f) /\ UNCHANGED probe
    \/ \E i \in 1..Len(filtered) : onRowClick(i) /\ clicked(filtered[i].text)
    \/ copyToClipboard /\ UNCHANGED probe
    \/ writeResolved /\ UNCHANGED probe
    \/ writeRejected /\ UNCHANGED probe
    \/ copiedTimeout /\ UNCHANGED probe
    \/ clearAll /\ emptied
    \/ \E val \in Queries : onFilterText(val) /\ UNCHANGED probe
    \/ \E val \in {ALL} \cup groups(rows) : onFilterGroup(val) /\ UNCHANGED probe
    \/ \E val \in EditorInputs : onEditorChange(val) /\ typed
    \/ \E f \in Pickable : onFilePickP(f) /\ UNCHANGED probe
    \/ \E d \in Droppable : onDropP(d) /\ UNCHANGED probe
    \/ \E f \in parsing : papaCompleteP(f) /\ emptied
    \/ \E f \in parsing : papaErrorP(f) /\ UNCHANGED probe
    \/ \E idx \in 0..(Len(filtered) - 1) :
          onSentenceClick(idx) /\ clicked(filtered[idx + 1])
    \/ copyToClipboardP /\ UNCHANGED probe
    \/ writeResolvedP /\ UNCHANGED probe
    \/ writeRejectedP /\ UNCHANGED probe
    \/ copiedTimeoutP /\ UNCHANGED probe
    \/ clearAllP /\ emptied
    \/ \E val \in Queries : onFilter(val) /\ UNCHANGED probe
    \/ \E val \in EditorInputs : onEditorChangeP(val) /\ typed

SpecClicks == InitClicks /\ [][NextClicks]_vars

(***************************************************************************)
(* Properties.                                                              *)
(***************************************************************************)
\* the id of the selected row is the id of some row of rs
present(rs) == \E i \in 1..Len(rs) : rs[i].id = selectedId[1]

\* a step of one of the two filter handlers of the grouped variant
filterChange ==
    \/ \E val \in Queries : onFilterText(val)
    \/ \E val \in {ALL} \cup groups(rows) : onFilterGroup(val)

\* the append of spec section 4.3, written from its three cases
appendRef(previous, next) ==
    IF previous = <<>> THEN next
    ELSE IF previous[Len(previous)] \in Whitespace THEN previous \o next
         ELSE previous \o <<" ">> \o next

\* C1: grouped variant: a step in which an import completes with at least one
\* usable row ends with the row collection equal to the normalised rows of
\* that file, the visible subset equal to the whole collection, the query
\* empty, the group filter "ALL", no selection and an empty editor buffer,
\* whatever the state before was.
C1_ImportSuccessResets ==
    [][\A f \in parsing :
          (/\ parsing' = parsing \ {f}
           /\ Len(parsedRows(Files[f].data)) > 0
           /\ papaComplete(f))
          => /\ rows' = parsedRows(Files[f].data)
             /\ filtered' = rows'
             /\ query' = <<>>
             /\ selectedGroup' = ALL
             /\ selectedId' = None
             /\ editorValue' = <<>>]_vars

\* rows of file 2 are loaded although file 1 was started after it and is
\* still being parsed: the import of file 2 completed, and reset the view
C1_Witness ==
    /\ variant = "grouped"
    /\ rows = parsedRows(Files[2].data)
    /\ fileName = Some(Files[1].name)
    /\ 1 \in parsing
    /\ filtered = rows
    /\ editorValue = <<>>

\* C2: grouped variant: in every reachable state the visible subset is the
\* filter applied to the current row collection with the current query text
\* and the current group choice, in row order.
C2_VisibleIsFilterOfCurrent ==
    variant = "grouped" => filtered = filterRows(rows, query, selectedGroup)

\* both filters active and narrowing: one of two rows is shown
C2_Witness ==
    /\ variant = "grouped"
    /\ selectedGroup # ALL
    /\ query # <<>>
    /\ Len(rows) = 2
    /\ Len(filtered) = 1

\* C3: plain variant: in every reachable state the visible subset is exactly
\* the sentences whose text contains the current query case-insensitively
\* (all of them when the query is empty), in row order.
C3_PlainVisibleMatchesQuery ==
    variant = "plain" =>
        filtered = SelectSeq(sentences,
                       LAMBDA t : includes(toLowerCase(t), toLowerCase(query)))

\* C4: grouped variant: a selection, when set, is the id of a row of the
\* current visible subset, and hence of the row collection.
C4_SelectionIsVisible ==
    (variant = "grouped" /\ selectedId # None) => present(filtered) /\ present(rows)

\* a row is selected while the filter hides another row
C4_Witness ==
    /\ variant = "grouped"
    /\ selectedId # None
    /\ Len(filtered) < Len(rows)

\* C5: plain variant: a selection, when set, designates in the current
\* visible subset the row that was last clicked.
C5_PlainSelectionIsClickedRow ==
    (variant = "plain" /\ selectedIndex # None) =>
        /\ selectedIndex[1] < Len(filtered)
        /\ clickedOrd # None
        /\ filteredOrd[selectedIndex[1] + 1] = clickedOrd[1]

\* C6: grouped variant: a click on a visible row selects that row's id and
\* sets the buffer to append(previous buffer, row text); rows, visible
\* subset, query and group filter keep their values.  With an empty buffer
\* and the group filter equal to the row's group the buffer is the row's text.
C6_RowClickEffect ==
    [][\A i \in 1..Len(filtered) :
          onRowClick(i)
          => /\ selectedId' = Some(filtered[i].id)
             /\ editorValue' = appendRef(editorValue, filtered[i].text)
             /\ UNCHANGED <<rows, filtered, query, selectedGroup>>
             /\ (editorValue = <<>> /\ selectedGroup = filtered[i].group)
                    => editorValue' = filtered[i].text]_vars

\* the row of group "A" was clicked twice under the group filter "A"
C6_Witness ==
    /\ variant = "grouped"
    /\ selectedGroup = <<"A">>
    /\ selectedId # None
    /\ editorValue = <<"x", " ", "x">>

\* C7: grouped variant: a query or group change after which the selected row
\* does not match clears the selection and recomputes the visible subset,
\* and leaves the editor buffer and the row collection as they were.
C7_FilterChangeClearsSelection ==
    [][(/\ filterChange
        /\ selectedId # None
        /\ ~(\E i \in 1..Len(rows') :
               /\ rows'[i].id = selectedId[1]
               /\ selectedGroup' \in {ALL, rows'[i].group}
               /\ includes(toLowerCase(rows'[i].group \o <<" ">> \o rows'[i].text),
                           toLowerCase(trim(query')))))
       => /\ selectedId' = None
          /\ filtered' = filterRows(rows, query', selectedGroup')
          /\ editorValue' = editorValue
          /\ rows' = rows]_vars

\* the buffer holds a clicked row's text, nothing is selected and a group
\* is chosen: the selection was cleared by a filter change (an import or a
\* clear would have emptied the buffer)
C7_Witness ==
    /\ variant = "grouped"
    /\ rows # <<>>
    /\ editorValue = <<"x">>
    /\ selectedId = None
    /\ selectedGroup # ALL

\* C8: grouped variant: a step in which an import completes with zero usable
\* rows ends with no rows, nothing visible, no selection, an empty buffer,
\* an empty query, the group filter "ALL" and the "no comments" message.
C8_EmptyImportResets ==
    [][\A f \in parsing :
          (/\ parsing' = parsing \ {f}
           /\ Len(parsedRows(Files[f].data)) = 0
           /\ papaComplete(f))
          => /\ rows' = <<>>
             /\ filtered' = <<>>
             /\ selectedId' = None
             /\ editorValue' = <<>>
             /\ query' = <<>>
             /\ selectedGroup' = ALL
             /\ error' = Some(NoCommentsMsg)]_vars

\* the blank file was imported over loaded data: a revert timer of a copy
\* made before is still pending
C8_Witness ==
    /\ variant = "grouped"
    /\ error = Some(NoCommentsMsg)
    /\ fileName = Some(Files[3].name)
    /\ rows = <<>>
    /\ timers > 0

\* C9: plain variant: a step in which an import completes with zero usable
\* rows ends with no sentences, nothing visible, no selection, an empty
\* buffer, an empty query and the "no sentences" message.
C9_PlainEmptyImportResets ==
    [][\A f \in parsing :
          (/\ parsing' = parsing \ {f}
           /\ Len(parsedSentences(Files[f].data)) = 0
           /\ papaCompleteP(f))
          => /\ sentences' = <<>>
             /\ filtered' = <<>>
             /\ selectedIndex' = None
             /\ editorValue' = <<>>
             /\ query' = <<>>
             /\ error' = Some(NoSentencesMsg)]_vars

\* C10: both variants: a clearAll step ends in the empty baseline: no rows,
\* nothing visible, no selection, empty query, group filter "ALL", no file
\* name, empty buffer, no error message.
C10_ClearAllBaseline ==
    [][(clearAll \/ clearAllP)
       => /\ rows' = <<>>
          /\ sentences' = <<>>
          /\ filtered' = <<>>
          /\ selectedId' = None
          /\ selectedIndex' = None
          /\ query' = <<>>
          /\ selectedGroup' = ALL
          /\ fileName' = None
          /\ editorValue' = <<>>
          /\ error' = None]_vars

\* no file name although an import is in flight: clearAll ran after the
\* import was started (starting it had set the name)
C10_Witness ==
    /\ parsing # {}
    /\ fileName = None
    /\ ~hasData
    /\ filtered = <<>>
    /\ editorValue = <<>>
    /\ error = None

\* C11: for all strings prev and next over an alphabet with space, newline,
\* tab and an ordinary character, appendWithSmartSpace(prev, next) is next if
\* prev is empty, prev + next if prev ends in a space, newline or tab, and
\* prev + " " + next otherwise.
C11_AppendEqualsReference ==
    probe.out # None =>
        probe.out[1] =
            IF probe.prev = <<>> THEN probe.next
            ELSE IF probe.prev[Len(probe.prev)] \in {" ", "\n", "\t"}
                 THEN probe.prev \o probe.next
                 ELSE probe.prev \o <<" ">> \o probe.next

\* a call with prev ending in a tab: nothing was inserted
C11_Witness ==
    /\ probe.prev = <<"x", "\t">>
    /\ probe.next = <<"x">>
    /\ probe.out = Some(<<"x", "\t", "x">>)

\* C12: both variants: when an import ends in a read failure, the row
\* collection, the visible subset, the selection, the editor buffer, the
\* query, the group filter and the file name all have the value they had
\* before that import was started; only the error message differs.
C12_FailedImportRestoresState ==
    [][\A f \in parsing :
          (papaError(f) \/ papaErrorP(f)) => fields' = probe.snap[f]]_vars

\* C13: both variants: a drop that carries no file, or a file whose name
\* does not end in ".csv" whatever the case of the letters, starts no import
\* and sets the error message; rows, visible subset, selection, editor
\* buffer, query, group filter and file name are unchanged.
C13_RejectedDropOnlySetsError ==
    [][\A d \in Droppable :
          (/\ d = 0 \/ ~endsWith(toLowerCase(Files[d].name), CsvSuffix)
           /\ onDrop(d) \/ onDropP(d))
          => /\ error' = Some(DropMsg)
             /\ UNCHANGED <<parsing, rows, sentences, filtered, selectedId,
                            selectedIndex, editorValue, query, selectedGroup,
                            fileName>>]_vars

\* a drop was rejected while a file is loaded, a row is clicked and no
\* import is in flight
C13_Witness ==
    /\ error = Some(DropMsg)
    /\ hasData
    /\ fileName # None
    /\ editorValue # <<>>
    /\ parsing = {}

\* the row the normalisation makes of one record, from the words of the
\* contract: cell(i) is the i-th cell counted from 0, "" when missing or null
refRow(rec, idx) ==
    LET cell(i) == IF i < Len(rec) /\ rec[i + 1] # None THEN rec[i + 1][1] ELSE <<>>
        g == trim(collapseWhitespace(cell(0)))
    IN  IF Len(rec) <= 1
        THEN [group |-> DEFAULT_GROUP, text |-> trim(cell(0)), order |-> idx]
        ELSE [group |-> IF g = <<>> THEN DEFAULT_GROUP ELSE g,
              text |-> trim(cell(1)), order |-> idx]

\* C14: grouped normalisation of every list of records within the bounds:
\* a record with at most one cell gives group "Ungrouped" and text = trimmed
\* cell 0; a record with two or more cells gives group = cell 0 with
\* whitespace runs collapsed and trimmed ("Ungrouped" if empty) and text =
\* trimmed cell 1, whatever the further cells; null cells count as empty;
\* rows with empty text are dropped; the others keep record order and carry
\* the index of their record as order.
C14_GroupedNormalisation ==
    probe.out # None =>
        [i \in 1..Len(probe.out[1]) |->
            [group |-> probe.out[1][i].group,
             text  |-> probe.out[1][i].text,
             order |-> probe.out[1][i].order]]
        = SelectSeq([i \in 1..Len(probe.data) |-> refRow(probe.data[i], i - 1)],
                    LAMBDA r : r.text # <<>>)

\* the first record has a blank comment and is dropped; the second, with a
\* third cell, survives with order 1, a collapsed group and a trimmed text
C14_Witness ==
    /\ probe.data = << <<Some(<<"a", " ", "\t", "b", " ">>), Some(<<" ">>)>>,
                       <<Some(<<"a", " ", "\t", "b", " ">>),
                         Some(<<"a", " ", "\t", "b", " ">>), None>> >>
    /\ probe.out # None
    /\ Len(probe.out[1]) = 1
    /\ probe.out[1][1].group = <<"a", " ", "b">>
    /\ probe.out[1][1].text = <<"a", " ", "\t", "b">>
    /\ probe.out[1][1].order = 1

\* the cells of a record joined with commas, a null cell counting as ""
RECURSIVE refJoin(_)
refJoin(rec) ==
    IF rec = <<>> THEN <<>>
    ELSE LET last == rec[Len(rec)]
             cell == IF last = None THEN <<>> ELSE last[1]
         IN  IF Len(rec) = 1 THEN cell
             ELSE refJoin(SubSeq(rec, 1, Len(rec) - 1)) \o <<",">> \o cell

\* C15: plain normalisation of every list of records within the bounds: each
\* record becomes the comma-join of its cells (null as empty), trimmed; empty
\* results are dropped; the others keep record order.  Three one-cell
\* records with clean text give exactly those three texts.
C15_PlainNormalisation ==
    probe.out # None =>
        /\ probe.out[1] =
               SelectSeq([i \in 1..Len(probe.data) |-> trim(refJoin(probe.data[i]))],
                         LAMBDA t : t # <<>>)
        /\ (/\ Len(probe.data) = 3
            /\ \A i \in 1..3 : /\ Len(probe.data[i]) = 1
                                /\ probe.data[i][1] # None
                                /\ trim(probe.data[i][1][1]) # <<>>)
           => probe.out[1] = [i \in 1..3 |-> trim(probe.data[i][1][1])]

\* three records: the first is blank and dropped, the second has a null
\* first cell, the third is one cell of text
C15_Witness ==
    /\ probe.data = << <<Some(<<" ">>)>>,
                       <<None, Some(<<" ", "a", " ">>)>>,
                       <<Some(<<" ", "a", " ">>)>> >>
    /\ probe.out = Some(<< <<",", " ", "a">>, <<"a">> >>)

\* no whitespace at either end, and no whitespace inside except single spaces
normalised(s) ==
    /\ s = <<>> \/ (s[1] \notin Whitespace /\ s[Len(s)] \notin Whitespace)
    /\ \A i \in 1..Len(s) :
          s[i] \in Whitespace => (s[i] = " " /\ (i > 1 => s[i - 1] \notin Whitespace))

\* C16: grouped variant: in every reachable state every row of the row
\* collection has a non-empty group in normalised form (no leading or
\* trailing whitespace, no whitespace run other than a single space) and a
\* non-empty text without leading or trailing whitespace.
C16_RowsAreNormalised ==
    variant = "grouped" =>
        \A i \in 1..Len(rows) :
            /\ rows[i].group # <<>>
            /\ normalised(rows[i].group)
            /\ rows[i].text # <<>>
            /\ rows[i].text[1] \notin Whitespace
            /\ rows[i].text[Len(rows[i].text)] \notin Whitespace

\* the file whose first record has the cells " " and "x " is loaded: the
\* blank group became the default group, the text lost its trailing space
C16_Witness ==
    /\ variant = "grouped"
    /\ Len(rows) = 2
    /\ rows[1].group = DEFAULT_GROUP
    /\ rows[1].text = <<"x">>
    /\ rows[2].group = <<"A">>

\* C17 as stated: the filter keeps a row exactly when the group filter is
\* "ALL" or equals the row's group, and the query is a case-insensitive
\* substring of the row's group concatenated with its text.
C17_FilterKeepsMatching ==
    probe.out # None =>
        probe.out[1] =
            SelectSeq(probe.rows,
                LAMBDA r : /\ probe.group = ALL \/ r.group = probe.group
                           /\ includes(toLowerCase(r.group \o r.text),
                                       toLowerCase(probe.query)))

\* C17 amended: the filter keeps a row exactly when the group filter is "ALL"
\* or equals the row's group, and the query with the whitespace at its ends
\* removed is a case-insensitive substring of the row's group, one space and
\* the row's text; the kept rows stay in row order.
C17_FilterKeepsMatchingTrimmed ==
    probe.out # None =>
        probe.out[1] =
            SelectSeq(probe.rows,
                LAMBDA r : /\ probe.group = ALL \/ r.group = probe.group
                           /\ includes(toLowerCase(r.group \o <<" ">> \o r.text),
                                       toLowerCase(trim(probe.query))))

\* both filters are active and each of them alone would keep more: of the
\* rows (A, b) and (b, b) the group "A" keeps the first, the query "B" both
C17_Witness ==
    /\ probe.out # None
    /\ Len(probe.rows) = 2
    /\ probe.rows[1].group = <<"A">> /\ probe.rows[1].text = <<"b">>
    /\ probe.rows[2].group = <<"b">> /\ probe.rows[2].text = <<"b">>
    /\ probe.group = <<"A">>
    /\ probe.query = <<"B", " ">>
    /\ probe.out[1] = <<probe.rows[1]>>

\* C18: both variants: the step in which a clipboard write succeeds turns
\* the "copied" indicator on, and, the revert timers firing eventually, an
\* indicator that is on is off again later: it never stays on forever.
C18_CopiedReverts ==
    /\ [][(writeResolved \/ writeResolvedP) => copied']_vars
    /\ copied ~> ~copied

\* a write has succeeded: the indicator is on and its revert timer pending
C18_Witness ==
    /\ copied
    /\ timers = 1
    /\ writing = <<>>
    /\ copiedText = Some(editorValue)
    /\ editorValue # <<>>

\* C19: both variants: the step in which a clipboard write is rejected sets
\* the error message and does not turn the "copied" indicator on; the editor
\* buffer, the row collection, the visible subset, the selection, the query
\* and the group filter are unchanged.
C19_RejectedWriteOnlySetsError ==
    [][(writeRejected \/ writeRejectedP)
       => /\ error' = Some(ClipboardMsg)
          /\ copied' => copied
          /\ UNCHANGED <<editorValue, rows, sentences, filtered, selectedId,
                         selectedIndex, query, selectedGroup>>]_vars

\* a write was rejected while rows are loaded, one is selected and its text
\* is in the buffer; the indicator is off
C19_Witness ==
    /\ error = Some(ClipboardMsg)
    /\ hasData
    /\ selectedId # None \/ selectedIndex # None
    /\ editorValue # <<>>
    /\ ~copied

\* the rows an import of file f loads, in the mounted variant
loaded(f) ==
    IF variant = "grouped" THEN parsedRows(Files[f].data)
    ELSE parsedSentences(Files[f].data)

\* C20: both variants: when a second import was started while an earlier one
\* was still being parsed, both have rows and both run their `complete`
\* callback, then after the later of the two callbacks the row collection
\* and the visible subset are those of the import that was started second,
\* whichever callback ran last.
C20_LatestStartedImportWins ==
    [][\A f \in parsing :
          (/\ parsing = {f}
           /\ Len(probe.order) = 2 /\ ~probe.more
           /\ f \in {probe.order[1], probe.order[2]}
           /\ {probe.order[1], probe.order[2]} \ {f} \subseteq probe.done
           /\ loaded(probe.order[1]) # <<>> /\ loaded(probe.order[2]) # <<>>
           /\ papaComplete(f) \/ papaCompleteP(f))
          => /\ (IF variant = "grouped" THEN rows' ELSE sentences')
                    = loaded(probe.order[2])
             /\ filtered' = loaded(probe.order[2])]_vars

\* C21: both variants: in every reachable state with a non-empty row
\* collection the file name shown is the name of the file whose records
\* produced that row collection.
C21_FileNameIsSourceOfRows ==
    hasData =>
        /\ fileName # None
        /\ \E f \in 1..Len(Files) :
              /\ fileName[1] = Files[f].name
              /\ (IF variant = "grouped" THEN rows ELSE sentences) = loaded(f)

\* t1 + " " + t2 + ... + " " + tn
RECURSIVE spaced(_)
spaced(texts) ==
    IF texts = <<>> THEN <<>>
    ELSE IF Len(texts) = 1 THEN texts[1]
         ELSE texts[1] \o <<" ">> \o spaced(Tail(texts))

\* C22: both variants: after clicks on rows with texts t1..tn (n >= 1) that
\* started from an empty editor buffer, with no manual edit, import or clear
\* in between, the buffer is t1 + " " + ... + " " + tn: one space between
\* consecutive texts and no whitespace at either end.
C22_ClicksJoinWithOneSpace ==
    (~probe.typed /\ probe.clicks # <<>>) =>
        /\ editorValue = spaced(probe.clicks)
        /\ editorValue[1] \notin Whitespace
        /\ editorValue[Len(editorValue)] \notin Whitespace

\* two rows were clicked one after the other
C22_Witness ==
    /\ ~probe.typed
    /\ Len(probe.clicks) = 2
    /\ editorValue = <<"x", " ", "x">>

\* C23: grouped variant: for every group g that occurs in the row
\* collection, whatever its name, the filter with g as the group choice and
\* an empty query gives exactly the rows whose group is g.
C23_GroupChoiceShowsItsRows ==
    (/\ probe.out # None
     /\ probe.query = <<>>
     /\ probe.group \in groups(probe.rows))
    => probe.out[1] = SelectSeq(probe.rows, LAMBDA r : r.group = probe.group)

\* C24: grouped variant: the ids of the rows of one import are pairwise
\* distinct, so the id of any row finds that row alone in the collection
\* and marks at most one row of any visible subset (any group choice, empty
\* query).
C24_IdsAreDistinct ==
    probe.out # None =>
        LET out == probe.out[1]
        IN  /\ \A i, j \in 1..Len(out) : out[i].id = out[j].id => i = j
            /\ \A i \in 1..Len(out) :
                  \A g \in groups(out) \cup {ALL} :
                      LET shown == filterRows(out, <<>>, g)
                      IN  Cardinality({k \in 1..Len(shown) :
                                         shown[k].id = out[i].id}) <= 1

\* two records with the same cells give two rows that differ in id only by
\* the index of their record
C24_Witness ==
    /\ probe.out # None
    /\ Len(probe.out[1]) = 2
    /\ probe.data[1] = probe.data[2]
    /\ probe.out[1][1].group = probe.out[1][2].group
    /\ probe.out[1][1].text = probe.out[1][2].text
    /\ probe.out[1][1].id # probe.out[1][2].id

\* C25: grouped variant: a query or group change after which the selected
\* row is in the new visible subset leaves the selection as it was.
C25_VisibleSelectionIsKept ==
    [][(/\ filterChange
        /\ selectedId # None
        /\ \E i \in 1..Len(filtered') : filtered'[i].id = selectedId[1])
       => selectedId' = selectedId]_vars

\* a row is selected and shown while a group filter hides another row
C25_Witness ==
    /\ variant = "grouped"
    /\ selectedId # None
    /\ selectedGroup # ALL
    /\ query # <<>>
    /\ present(filtered)
    /\ Len(filtered) < Len(rows)

\* C26: both variants: in every reachable state where the "copied"
\* indicator is on, the text last written to the clipboard is the current
\* editor buffer.
C26_CopiedMeansBufferOnClipboard ==
    copied => copiedText = Some(editorValue)

\* C27: both variants: a step in which an import completes with at least
\* one usable row ends with no error message shown, whatever happened while
\* the file was being parsed.
C27_NoErrorAfterSuccessfulImport ==
    [][\A f \in parsing :
          (/\ parsing' = parsing \ {f}
           /\ Len(loaded(f)) > 0
           /\ (papaComplete(f) \/ papaCompleteP(f)))
          => error' = None]_vars

====
